---- MODULE Spec2Model ----
(***************************************************************************)
(* Model of the two CosmWasm contracts of omi-fin-cosmo:                   *)
(*   - the token contract (src/src/contract.rs): ledger, fee-skimming      *)
(*     transfer, owner burn, time-gated mint, governance;                  *)
(*   - the factory contract (src/src/lib.rs): token registry.              *)
(*                                                                         *)
(* A handler is an operator from (storage, caller, message) to a result    *)
(* [ok, err, st]: st is the storage as the handler leaves it, writes made  *)
(* before a failing step included.  The host commits st when the handler   *)
(* returns Ok and discards it when the handler returns Err or panics.      *)
(***************************************************************************)
EXTENDS Integers, Sequences, FiniteSets, TLC

VARIABLES
    CONFIG,              \* Item<Config>
    TOKEN_INFO,          \* Item<TokenInfo> (total_supply; name, symbol, decimals never change)
    BALANCES,            \* Map<&Addr, Uint128>, a key holds None or Some(amount)
    ALLOWANCES,          \* Map<(&Addr, &Addr), AllowanceResponse>
    MINT_INFO,           \* Map<&Addr, MintInfo>
    TOTAL_BURNED,        \* Item<Uint128>
    OWNER,               \* factory: Item<Addr>
    TOKENS,              \* factory: Map<&Addr, Vec<Addr>>
    ALL_TOKENS,          \* factory: Item<Vec<Addr>>
    FACTORY_TOKEN_INFO,  \* factory: Map<&Addr, TokenInfo>
    instantiated_supply, \* InstantiateMsg.initial_supply of the token contract
    total_minted,        \* sum of the amounts credited by the committed mints
    now,                 \* env.block.time, in seconds, of the latest committed call that read it
    ncalls,              \* number of committed execute calls
    last                 \* the execute call just committed: message, time, storage before it

vars == <<CONFIG, TOKEN_INFO, BALANCES, ALLOWANCES, MINT_INFO, TOTAL_BURNED,
          OWNER, TOKENS, ALL_TOKENS, FACTORY_TOKEN_INFO,
          instantiated_supply, total_minted, now, ncalls, last>>

tokenVars == <<CONFIG, TOKEN_INFO, BALANCES, ALLOWANCES, MINT_INFO, TOTAL_BURNED>>
factoryVars == <<OWNER, TOKENS, ALL_TOKENS, FACTORY_TOKEN_INFO>>

----------------------------------------------------------------------------
(* Bounds of the model *)

\* Largest Uint128 of the model; stands for 2^128 - 1.
MaxUint128 == 1023
\* Block times range over the ends of the first MaxDays mint intervals.
MaxDays == 2
\* Committed execute calls per behaviour.
MaxCalls == 3

----------------------------------------------------------------------------
(* Values *)

Addrs == {"a1", "a2", "a3"}
\* A string the host's address validator rejects.
InvalidAddr == "INVALID"
AddrStrings == Addrs \cup {InvalidAddr}

\* Message inputs the model draws from.
InitialSupplies == {200, 1000}
TransferAmounts == {50, 100}
TransferFromAmounts == {0, 100}
BurnAmounts == {0, 100, 1000}
MintAmounts == {1000}

None == <<>>
Some(x) == <<x>>

\* Option<Uint128>::unwrap_or_default
unwrap_or_default(o) == IF o = None THEN 0 ELSE o[1]

\* AllowanceResponse::default(), used by Option::unwrap_or_default on ALLOWANCES
AllowanceDefault == [allowance |-> 0, expires |-> 0]

\* Error values, named by the text or variant the code returns.
ErrInvalidAddr == "addr_validate"
ErrOverflowSub == "Overflow: Sub"
ErrOverflowAdd == "Overflow: Add"
ErrNotFound == "NotFound"
ErrPanic == "panic"
ErrUnauthorized == "Unauthorized"
ErrZeroAmount == "Amount must be greater than 0"
ErrMintDisabled == "Mint is disabled"
ErrMintCooldown == "You have already minted recently. Please wait."
ErrUnsupported == "Unsupported execute message"
ErrContractLocked == "Contract is locked"

Ok(st) == [ok |-> TRUE, err |-> "", st |-> st]
Err(e, st) == [ok |-> FALSE, err |-> e, st |-> st]

\* deps.api.addr_validate
addr_validate(s) == s \in Addrs

\* Uint128::checked_sub
checked_sub(a, b) == IF b > a THEN [ok |-> FALSE, v |-> 0] ELSE [ok |-> TRUE, v |-> a - b]

\* Uint128::checked_add
checked_add(a, b) ==
    IF a + b > MaxUint128 THEN [ok |-> FALSE, v |-> 0] ELSE [ok |-> TRUE, v |-> a + b]

\* Decimal::percent: the model keeps a Decimal as its number of hundredths.
Decimal_percent(x) == x

\* A rounding slip: the product rounded up.
Uint128_mul_Decimal_ceil(a, d) == (a * d + 99) \div 100

\* Uint128 * Decimal: the product rounded down, floor(a * d / 100) for d hundredths
Uint128_mul_Decimal(a, d) == (a * d) \div 100

\* Config.mint_interval_seconds
MINT_INTERVAL_SECONDS == 24 * 60 * 60
\* Config.mint_amount at instantiation: 400_000_000_000_000_000, in units of 10^15.
DEFAULT_MINT_AMOUNT == 400

Times == {0} \cup UNION {{d * MINT_INTERVAL_SECONDS - 1, d * MINT_INTERVAL_SECONDS} : d \in 1..MaxDays}

\* Timestamp::plus_seconds
plus_seconds(t, s) == t + s

----------------------------------------------------------------------------
(* Token contract: storage updates *)

\* A slip: the debit saturates at zero instead of failing.
BALANCES_update_sub_saturating(st, key, amount) ==
    LET b == unwrap_or_default(st.BALANCES[key]) IN
    Ok([st EXCEPT !.BALANCES[key] = Some(IF amount > b THEN 0 ELSE b - amount)])

\* BALANCES.update(storage, key, |balance| balance.unwrap_or_default().checked_sub(amount))
BALANCES_update_sub(st, key, amount) ==
    LET r == checked_sub(unwrap_or_default(st.BALANCES[key]), amount) IN
    IF r.ok THEN Ok([st EXCEPT !.BALANCES[key] = Some(r.v)]) ELSE Err(ErrOverflowSub, st)

\* BALANCES.update(storage, key, |balance| balance.unwrap_or_default().checked_add(amount))
BALANCES_update_add(st, key, amount) ==
    LET r == checked_add(unwrap_or_default(st.BALANCES[key]), amount) IN
    IF r.ok THEN Ok([st EXCEPT !.BALANCES[key] = Some(r.v)]) ELSE Err(ErrOverflowAdd, st)

\* A slip: the allowance saturates at zero instead of failing.
ALLOWANCES_update_sub_saturating(st, owner, spender, amount) ==
    LET old == IF st.ALLOWANCES[<<owner, spender>>] = None
               THEN AllowanceDefault ELSE st.ALLOWANCES[<<owner, spender>>][1] IN
    Ok([st EXCEPT !.ALLOWANCES[<<owner, spender>>] =
            Some([old EXCEPT !.allowance = IF amount > @ THEN 0 ELSE @ - amount])])

\* ALLOWANCES.update: allowance.allowance.checked_sub(amount) on the stored or default record
ALLOWANCES_update_sub(st, owner, spender, amount) ==
    LET old == IF st.ALLOWANCES[<<owner, spender>>] = None
               THEN AllowanceDefault ELSE st.ALLOWANCES[<<owner, spender>>][1]
        r == checked_sub(old.allowance, amount) IN
    IF r.ok THEN Ok([st EXCEPT !.ALLOWANCES[<<owner, spender>>] = Some([old EXCEPT !.allowance = r.v])])
    ELSE Err(ErrOverflowSub, st)

\* A slip: the three balances are read before any of them is written, so an
\* account that plays two roles keeps only the last write.
debit_and_credit_stale(st, from, recipient_addr, amount, amount_after_fee, fee) ==
    LET r1 == BALANCES_update_sub(st, from, amount)
        r2 == BALANCES_update_add(st, recipient_addr, amount_after_fee)
        r3 == BALANCES_update_add(st, st.CONFIG.fee_receiver, fee) IN
    IF ~r1.ok THEN r1 ELSE
    IF ~r2.ok THEN r2 ELSE
    IF ~r3.ok THEN r3 ELSE
    Ok([st EXCEPT !.BALANCES =
        [a \in Addrs |->
            IF a = st.CONFIG.fee_receiver THEN r3.st.BALANCES[a]
            ELSE IF a = recipient_addr THEN r2.st.BALANCES[a]
            ELSE IF a = from THEN r1.st.BALANCES[a]
            ELSE st.BALANCES[a]]])

\* The debit of `from` and the two credits shared by transfer and transfer_from.
debit_and_credit(st, from, recipient_addr, amount, amount_after_fee, fee) ==
    LET r1 == BALANCES_update_sub(st, from, amount) IN
    IF ~r1.ok THEN r1 ELSE
    LET r2 == BALANCES_update_add(r1.st, recipient_addr, amount_after_fee) IN
    IF ~r2.ok THEN r2 ELSE
    BALANCES_update_add(r2.st, st.CONFIG.fee_receiver, fee)

----------------------------------------------------------------------------
(* Token contract: handlers *)

instantiate(sender, owner_opt, fee_receiver, initial_supply) ==
    LET st0 == [CONFIG |-> None, TOKEN_INFO |-> None,
                BALANCES |-> [a \in Addrs |-> None],
                ALLOWANCES |-> [p \in Addrs \X Addrs |-> None],
                MINT_INFO |-> [a \in Addrs |-> None],
                TOTAL_BURNED |-> None] IN
    IF owner_opt # None /\ ~addr_validate(owner_opt[1]) THEN Err(ErrInvalidAddr, st0) ELSE
    IF ~addr_validate(fee_receiver) THEN Err(ErrInvalidAddr, st0) ELSE
    LET owner == IF owner_opt = None THEN sender ELSE owner_opt[1] IN
    Ok([st0 EXCEPT
          !.CONFIG = [mint_interval_seconds |-> MINT_INTERVAL_SECONDS,
                      fee_percent |-> Decimal_percent(1),
                      fee_receiver |-> fee_receiver,
                      immutable_mode |-> FALSE,
                      mint_enabled |-> FALSE,
                      mint_amount |-> DEFAULT_MINT_AMOUNT,
                      owner |-> owner],
          !.TOTAL_BURNED = 0,
          !.TOKEN_INFO = [total_supply |-> initial_supply],
          !.BALANCES[owner] = Some(initial_supply)])

execute_transfer(st, sender, recipient, amount) ==
    LET config == st.CONFIG IN
    IF ~addr_validate(recipient) THEN Err(ErrInvalidAddr, st) ELSE
    LET fee == Uint128_mul_Decimal(amount, config.fee_percent)
        net == checked_sub(amount, fee) IN
    IF ~net.ok THEN Err(ErrOverflowSub, st) ELSE
    debit_and_credit(st, sender, recipient, amount, net.v, fee)

\* A slip: the allowance is not looked at.
execute_transfer_from_no_allowance(st, sender, owner, recipient, amount) ==
    IF ~addr_validate(owner) THEN Err(ErrInvalidAddr, st) ELSE
    IF ~addr_validate(recipient) THEN Err(ErrInvalidAddr, st) ELSE
    LET fee == Uint128_mul_Decimal(amount, st.CONFIG.fee_percent)
        net == checked_sub(amount, fee) IN
    IF ~net.ok THEN Err(ErrOverflowSub, st) ELSE
    debit_and_credit(st, owner, recipient, amount, net.v, fee)

execute_transfer_from(st, sender, owner, recipient, amount) ==
    LET config == st.CONFIG IN
    IF ~addr_validate(owner) THEN Err(ErrInvalidAddr, st) ELSE
    IF ~addr_validate(recipient) THEN Err(ErrInvalidAddr, st) ELSE
    LET fee == Uint128_mul_Decimal(amount, config.fee_percent)
        net == checked_sub(amount, fee) IN
    IF ~net.ok THEN Err(ErrOverflowSub, st) ELSE
    LET r0 == ALLOWANCES_update_sub(st, owner, sender, amount) IN
    IF ~r0.ok THEN r0 ELSE
    debit_and_credit(r0.st, owner, recipient, amount, net.v, fee)

\* A slip: the owner check is missing.
execute_burn_any_caller(st, sender, amount) ==
    IF amount = 0 THEN Err(ErrZeroAmount, st) ELSE
    LET r1 == BALANCES_update_sub(st, sender, amount) IN
    IF ~r1.ok THEN r1 ELSE
    IF r1.st.TOTAL_BURNED + amount > MaxUint128 THEN Err(ErrPanic, r1.st) ELSE
    LET st2 == [r1.st EXCEPT !.TOTAL_BURNED = @ + amount]
        r3 == checked_sub(st2.TOKEN_INFO.total_supply, amount) IN
    IF ~r3.ok THEN Err(ErrOverflowSub, st2) ELSE
    Ok([st2 EXCEPT !.TOKEN_INFO.total_supply = r3.v])

\* A slip: total_burned is overwritten by the amount instead of raised by it.
execute_burn_overwrites_total(st, sender, amount) ==
    IF sender # st.CONFIG.owner THEN Err(ErrUnauthorized, st) ELSE
    IF amount = 0 THEN Err(ErrZeroAmount, st) ELSE
    LET r1 == BALANCES_update_sub(st, sender, amount) IN
    IF ~r1.ok THEN r1 ELSE
    LET st2 == [r1.st EXCEPT !.TOTAL_BURNED = amount]
        r3 == checked_sub(st2.TOKEN_INFO.total_supply, amount) IN
    IF ~r3.ok THEN Err(ErrOverflowSub, st2) ELSE
    Ok([st2 EXCEPT !.TOKEN_INFO.total_supply = r3.v])

execute_burn(st, sender, amount) ==
    LET config == st.CONFIG IN
    IF sender # config.owner THEN Err(ErrUnauthorized, st) ELSE
    IF amount = 0 THEN Err(ErrZeroAmount, st) ELSE
    LET r1 == BALANCES_update_sub(st, sender, amount) IN
    IF ~r1.ok THEN r1 ELSE
    \* total + amount: Uint128's Add panics on overflow
    IF r1.st.TOTAL_BURNED + amount > MaxUint128 THEN Err(ErrPanic, r1.st) ELSE
    LET st2 == [r1.st EXCEPT !.TOTAL_BURNED = @ + amount]
        r3 == checked_sub(st2.TOKEN_INFO.total_supply, amount) IN
    IF ~r3.ok THEN Err(ErrOverflowSub, st2) ELSE
    Ok([st2 EXCEPT !.TOKEN_INFO.total_supply = r3.v])

\* A slip: total_supply is not raised.
mint_writes_keeps_supply(st, sender, current_time) ==
    LET config == st.CONFIG
        st1 == [st EXCEPT !.MINT_INFO[sender] = Some([last_mint_time |-> current_time])] IN
    BALANCES_update_add(st1, sender, config.mint_amount)

\* A slip: the minted amount is credited to Config.owner instead of the caller.
mint_writes_credits_owner(st, sender, current_time) ==
    LET config == st.CONFIG
        st1 == [st EXCEPT !.MINT_INFO[sender] = Some([last_mint_time |-> current_time])]
        r2 == BALANCES_update_add(st1, config.owner, config.mint_amount) IN
    IF ~r2.ok THEN r2 ELSE
    LET r3 == checked_add(r2.st.TOKEN_INFO.total_supply, config.mint_amount) IN
    IF ~r3.ok THEN Err(ErrOverflowAdd, r2.st) ELSE
    Ok([r2.st EXCEPT !.TOKEN_INFO.total_supply = r3.v])

\* The writes of a mint that passed both gates: MINT_INFO.save, then the checked
\* credits of the balance and of total_supply.
mint_writes(st, sender, current_time) ==
    LET config == st.CONFIG
        st1 == [st EXCEPT !.MINT_INFO[sender] = Some([last_mint_time |-> current_time])]
        r2 == BALANCES_update_add(st1, sender, config.mint_amount) IN
    IF ~r2.ok THEN r2 ELSE
    LET r3 == checked_add(r2.st.TOKEN_INFO.total_supply, config.mint_amount) IN
    IF ~r3.ok THEN Err(ErrOverflowAdd, r2.st) ELSE
    Ok([r2.st EXCEPT !.TOKEN_INFO.total_supply = r3.v])

\* next_mint_time: an absent mint record counts as last_mint_time = 0
next_mint_time_of(st, sender) ==
    LET mint_info == IF st.MINT_INFO[sender] = None
                     THEN [last_mint_time |-> 0] ELSE st.MINT_INFO[sender][1] IN
    plus_seconds(mint_info.last_mint_time, st.CONFIG.mint_interval_seconds)

\* A slip: the cooldown is tested before the mint_enabled flag.
execute_mint_cooldown_first(st, sender, current_time) ==
    IF current_time < next_mint_time_of(st, sender) THEN Err(ErrMintCooldown, st) ELSE
    IF ~st.CONFIG.mint_enabled THEN Err(ErrMintDisabled, st) ELSE
    mint_writes(st, sender, current_time)

\* A slip: the interval is not added to last_mint_time.
execute_mint_no_interval(st, sender, current_time) ==
    IF ~st.CONFIG.mint_enabled THEN Err(ErrMintDisabled, st) ELSE
    IF current_time < next_mint_time_of(st, sender) - st.CONFIG.mint_interval_seconds
    THEN Err(ErrMintCooldown, st) ELSE
    mint_writes(st, sender, current_time)

execute_mint(st, sender, current_time) ==
    LET config == st.CONFIG IN
    IF ~config.mint_enabled THEN Err(ErrMintDisabled, st) ELSE
    LET next_mint_time == next_mint_time_of(st, sender) IN
    IF current_time < next_mint_time THEN Err(ErrMintCooldown, st) ELSE
    mint_writes(st, sender, current_time)

\* Send, IncreaseAllowance, DecreaseAllowance: the `_ =>` arm of execute
execute_unsupported(st) == Err(ErrUnsupported, st)

(* The four governance handlers execute dispatches to are not part of the   *)
(* source at hand; they follow the design document: a call on a locked      *)
(* contract fails with ContractLocked, a call by another account than       *)
(* Config.owner fails with Unauthorized, otherwise the Config field is set. *)

execute_set_mint_amount(st, sender, amount) ==
    IF st.CONFIG.immutable_mode THEN Err(ErrContractLocked, st) ELSE
    IF sender # st.CONFIG.owner THEN Err(ErrUnauthorized, st) ELSE
    Ok([st EXCEPT !.CONFIG.mint_amount = amount])

\* A slip: the lock is not looked at.
execute_set_mint_enabled_unlocked(st, sender, enabled) ==
    IF sender # st.CONFIG.owner THEN Err(ErrUnauthorized, st) ELSE
    Ok([st EXCEPT !.CONFIG.mint_enabled = enabled])

execute_set_mint_enabled(st, sender, enabled) ==
    IF st.CONFIG.immutable_mode THEN Err(ErrContractLocked, st) ELSE
    IF sender # st.CONFIG.owner THEN Err(ErrUnauthorized, st) ELSE
    Ok([st EXCEPT !.CONFIG.mint_enabled = enabled])

execute_lock_ownership(st, sender) ==
    IF st.CONFIG.immutable_mode THEN Err(ErrContractLocked, st) ELSE
    IF sender # st.CONFIG.owner THEN Err(ErrUnauthorized, st) ELSE
    Ok([st EXCEPT !.CONFIG.immutable_mode = TRUE])

execute_transfer_ownership(st, sender, new_owner) ==
    IF st.CONFIG.immutable_mode THEN Err(ErrContractLocked, st) ELSE
    IF sender # st.CONFIG.owner THEN Err(ErrUnauthorized, st) ELSE
    IF ~addr_validate(new_owner) THEN Err(ErrInvalidAddr, st) ELSE
    Ok([st EXCEPT !.CONFIG.owner = new_owner])

----------------------------------------------------------------------------
(* Factory contract: handlers *)

\* Uint128::new(40_000_000_000_000_000) of mint, in units of 10^15.
FACTORY_MINT_AMOUNT == 40

factory_instantiate(owner) ==
    LET st0 == [OWNER |-> None, TOKENS |-> [a \in Addrs |-> None], ALL_TOKENS |-> None,
                TOKEN_INFO |-> [a \in Addrs |-> None]] IN
    IF ~addr_validate(owner) THEN Err(ErrInvalidAddr, st0) ELSE
    Ok([st0 EXCEPT !.OWNER = Some(owner)])

create_token(st, sender, name, symbol, initial_supply) ==
    IF st.OWNER = None THEN Err(ErrNotFound, st) ELSE
    LET owner == st.OWNER[1] IN
    IF ~addr_validate(sender) THEN Err(ErrInvalidAddr, st) ELSE
    LET token_address == sender
        token_info == [name |-> name, symbol |-> symbol, supply |-> initial_supply,
                       fee_receiver |-> owner, creator |-> sender,
                       mint_enabled |-> FALSE, immutable_mode |-> FALSE]
        st1 == [st EXCEPT !.TOKEN_INFO[token_address] = Some(token_info)] IN
    \* Item::update loads the item first and fails when it was never saved
    IF st1.ALL_TOKENS = None THEN Err(ErrNotFound, st1) ELSE
    LET st2 == [st1 EXCEPT !.ALL_TOKENS = Some(Append(@[1], token_address))]
        tokens == IF st2.TOKENS[sender] = None THEN <<>> ELSE st2.TOKENS[sender][1] IN
    Ok([st2 EXCEPT !.TOKENS[sender] = Some(Append(tokens, token_address))])

factory_mint(st, sender, token_address) ==
    IF ~addr_validate(token_address) THEN Err(ErrInvalidAddr, st) ELSE
    IF st.TOKEN_INFO[token_address] = None THEN Err(ErrNotFound, st) ELSE
    LET token_info == st.TOKEN_INFO[token_address][1] IN
    IF ~token_info.mint_enabled THEN Err(ErrMintDisabled, st) ELSE
    \* token_info.supply += mint_amount: Uint128's AddAssign panics on overflow
    IF token_info.supply + FACTORY_MINT_AMOUNT > MaxUint128 THEN Err(ErrPanic, st) ELSE
    Ok([st EXCEPT !.TOKEN_INFO[token_address] =
                      Some([token_info EXCEPT !.supply = @ + FACTORY_MINT_AMOUNT])])

\* transfer writes no storage: it answers with two BankMsg::Send of the chain's coin
factory_transfer(st, sender, token_address, recipient, amount) ==
    IF ~addr_validate(token_address) THEN Err(ErrInvalidAddr, st) ELSE
    IF ~addr_validate(recipient) THEN Err(ErrInvalidAddr, st) ELSE
    Ok(st)

set_mint_enabled(st, sender, token_address, enabled) ==
    IF ~addr_validate(token_address) THEN Err(ErrInvalidAddr, st) ELSE
    IF st.TOKEN_INFO[token_address] = None THEN Err(ErrNotFound, st) ELSE
    LET token_info == st.TOKEN_INFO[token_address][1] IN
    IF token_info.immutable_mode THEN Err(ErrContractLocked, st) ELSE
    Ok([st EXCEPT !.TOKEN_INFO[token_address] = Some([token_info EXCEPT !.mint_enabled = enabled])])

lock_ownership(st, sender, token_address) ==
    IF ~addr_validate(token_address) THEN Err(ErrInvalidAddr, st) ELSE
    IF st.TOKEN_INFO[token_address] = None THEN Err(ErrNotFound, st) ELSE
    LET token_info == st.TOKEN_INFO[token_address][1] IN
    Ok([st EXCEPT !.TOKEN_INFO[token_address] = Some([token_info EXCEPT !.immutable_mode = TRUE])])

----------------------------------------------------------------------------
(* Token contract: state machine *)

TokenStore ==
    [CONFIG |-> CONFIG, TOKEN_INFO |-> TOKEN_INFO, BALANCES |-> BALANCES,
     ALLOWANCES |-> ALLOWANCES, MINT_INFO |-> MINT_INFO, TOTAL_BURNED |-> TOTAL_BURNED]

FactoryStore ==
    [OWNER |-> OWNER, TOKENS |-> TOKENS, ALL_TOKENS |-> ALL_TOKENS,
     TOKEN_INFO |-> FACTORY_TOKEN_INFO]

\* The message of a call and its sender; `addr` is the message's owner, new_owner or
\* token_address.  Fields a message does not carry hold a fixed filler.
Msg(op, sender, addr, recipient, amount, enabled) ==
    [op |-> op, sender |-> sender, addr |-> addr, recipient |-> recipient,
     amount |-> amount, enabled |-> enabled]

\* No committed call is waiting for its response.
Idle == [contract |-> "none", msg |-> Msg("none", "", "", "", 0, FALSE), time |-> 0, pre |-> None]

\* The host runs one token execute call in a block of time `time`.  When the
\* handler returns Ok the host commits the storage it left and the call is recorded
\* in `last`; when it returns Err or panics the host discards its writes and
\* nothing changes.
TokenCall(msg, time, r) ==
    /\ last = Idle
    /\ IF r.ok
       THEN /\ ncalls < MaxCalls
            /\ CONFIG' = r.st.CONFIG
            /\ TOKEN_INFO' = r.st.TOKEN_INFO
            /\ BALANCES' = r.st.BALANCES
            /\ ALLOWANCES' = r.st.ALLOWANCES
            /\ MINT_INFO' = r.st.MINT_INFO
            /\ TOTAL_BURNED' = r.st.TOTAL_BURNED
            /\ ncalls' = ncalls + 1
            /\ now' = time
            /\ total_minted' = total_minted + (IF msg.op = "mint" THEN CONFIG.mint_amount ELSE 0)
            /\ last' = [contract |-> "token", msg |-> msg, time |-> time, pre |-> TokenStore]
       ELSE UNCHANGED <<tokenVars, total_minted, ncalls, now, last>>
    /\ UNCHANGED <<factoryVars, instantiated_supply>>

Transfer ==
    \E sender \in Addrs, recipient \in AddrStrings, amount \in TransferAmounts :
        TokenCall(Msg("transfer", sender, "", recipient, amount, FALSE), now,
                  execute_transfer(TokenStore, sender, recipient, amount))

TransferFrom ==
    \E sender \in Addrs, owner \in {"a1", InvalidAddr}, recipient \in {"a2", InvalidAddr},
       amount \in TransferFromAmounts :
        TokenCall(Msg("transfer_from", sender, owner, recipient, amount, FALSE), now,
                  execute_transfer_from(TokenStore, sender, owner, recipient, amount))

Burn ==
    \E sender \in Addrs, amount \in BurnAmounts :
        TokenCall(Msg("burn", sender, "", "", amount, FALSE), now,
                  execute_burn(TokenStore, sender, amount))

\* execute_mint is the one handler that reads env.block.time; the block of a call
\* is no earlier than the block of the call before it.
Mint ==
    \E sender \in Addrs, time \in Times :
        /\ time >= now
        /\ TokenCall(Msg("mint", sender, "", "", 0, FALSE), time,
                     execute_mint(TokenStore, sender, time))

Unsupported ==
    \E sender \in Addrs, op \in {"send", "increase_allowance", "decrease_allowance"} :
        TokenCall(Msg(op, sender, "", "", 100, FALSE), now, execute_unsupported(TokenStore))

SetMintAmount ==
    \E sender \in Addrs, amount \in MintAmounts :
        TokenCall(Msg("set_mint_amount", sender, "", "", amount, FALSE), now,
                  execute_set_mint_amount(TokenStore, sender, amount))

SetMintEnabled ==
    \E sender \in Addrs, enabled \in BOOLEAN :
        TokenCall(Msg("set_mint_enabled", sender, "", "", 0, enabled), now,
                  execute_set_mint_enabled(TokenStore, sender, enabled))

LockOwnership ==
    \E sender \in Addrs :
        TokenCall(Msg("lock_ownership", sender, "", "", 0, FALSE), now,
                  execute_lock_ownership(TokenStore, sender))

TransferOwnership ==
    \E sender \in Addrs, new_owner \in {"a2", InvalidAddr} :
        TokenCall(Msg("transfer_ownership", sender, new_owner, "", 0, FALSE), now,
                  execute_transfer_ownership(TokenStore, sender, new_owner))

\* The host hands the response of the committed call to its submitter.
Respond ==
    /\ last # Idle
    /\ last' = Idle
    /\ UNCHANGED <<tokenVars, factoryVars, instantiated_supply, total_minted, now, ncalls>>

\* The factory contract, instantiated and idle.
FactoryIdle ==
    /\ OWNER = factory_instantiate("a1").st.OWNER
    /\ TOKENS = factory_instantiate("a1").st.TOKENS
    /\ ALL_TOKENS = factory_instantiate("a1").st.ALL_TOKENS
    /\ FACTORY_TOKEN_INFO = factory_instantiate("a1").st.TOKEN_INFO

Init ==
    /\ \E sender \in {"a1"}, owner_opt \in {None, Some("a1")},
          fee_receiver \in Addrs, initial_supply \in InitialSupplies :
          LET r == instantiate(sender, owner_opt, fee_receiver, initial_supply) IN
          /\ r.ok
          /\ CONFIG = r.st.CONFIG
          /\ TOKEN_INFO = r.st.TOKEN_INFO
          /\ BALANCES = r.st.BALANCES
          /\ ALLOWANCES = r.st.ALLOWANCES
          /\ MINT_INFO = r.st.MINT_INFO
          /\ TOTAL_BURNED = r.st.TOTAL_BURNED
          /\ instantiated_supply = initial_supply
    /\ total_minted = 0
    /\ FactoryIdle
    /\ now = 0
    /\ ncalls = 0
    /\ last = Idle

Next ==
    \/ Transfer
    \/ TransferFrom
    \/ Burn
    \/ Mint
    \/ Unsupported
    \/ SetMintAmount
    \/ SetMintEnabled
    \/ LockOwnership
    \/ TransferOwnership
    \/ Respond

Spec == Init /\ [][Next]_vars

----------------------------------------------------------------------------
(* Factory contract: state machine *)

Names == {"n1", "n2"}
FactorySupplies == {0, 1000}
FactoryTransferAmounts == {100, 150}

\* The host runs one factory execute call, as for the token contract.
FactoryCall(msg, r) ==
    /\ last = Idle
    /\ IF r.ok
       THEN /\ ncalls < MaxCalls
            /\ OWNER' = r.st.OWNER
            /\ TOKENS' = r.st.TOKENS
            /\ ALL_TOKENS' = r.st.ALL_TOKENS
            /\ FACTORY_TOKEN_INFO' = r.st.TOKEN_INFO
            /\ ncalls' = ncalls + 1
            /\ last' = [contract |-> "factory", msg |-> msg, time |-> now, pre |-> FactoryStore]
       ELSE UNCHANGED <<factoryVars, ncalls, last>>
    /\ UNCHANGED <<tokenVars, instantiated_supply, total_minted, now>>

CreateToken ==
    \E sender \in Addrs, name \in Names, initial_supply \in FactorySupplies :
        FactoryCall(Msg("create_token", sender, name, "", initial_supply, FALSE),
                    create_token(FactoryStore, sender, name, "SYM", initial_supply))

FactoryMint ==
    \E sender \in Addrs, token_address \in AddrStrings :
        FactoryCall(Msg("mint", sender, token_address, "", 0, FALSE),
                    factory_mint(FactoryStore, sender, token_address))

FactoryTransfer ==
    \E sender \in Addrs, token_address \in AddrStrings, recipient \in AddrStrings,
       amount \in FactoryTransferAmounts :
        FactoryCall(Msg("transfer", sender, token_address, recipient, amount, FALSE),
                    factory_transfer(FactoryStore, sender, token_address, recipient, amount))

FactorySetMintEnabled ==
    \E sender \in Addrs, token_address \in AddrStrings, enabled \in BOOLEAN :
        FactoryCall(Msg("set_mint_enabled", sender, token_address, "", 0, enabled),
                    set_mint_enabled(FactoryStore, sender, token_address, enabled))

FactoryLockOwnership ==
    \E sender \in Addrs, token_address \in AddrStrings :
        FactoryCall(Msg("lock_ownership", sender, token_address, "", 0, FALSE),
                    lock_ownership(FactoryStore, sender, token_address))

FactoryInit ==
    /\ \E owner \in Addrs :
          LET r == factory_instantiate(owner) IN
          /\ r.ok
          /\ OWNER = r.st.OWNER
          /\ TOKENS = r.st.TOKENS
          /\ ALL_TOKENS = r.st.ALL_TOKENS
          /\ FACTORY_TOKEN_INFO = r.st.TOKEN_INFO
    /\ CONFIG = instantiate("a1", None, "a3", 1000).st.CONFIG
    /\ TOKEN_INFO = instantiate("a1", None, "a3", 1000).st.TOKEN_INFO
    /\ BALANCES = instantiate("a1", None, "a3", 1000).st.BALANCES
    /\ ALLOWANCES = instantiate("a1", None, "a3", 1000).st.ALLOWANCES
    /\ MINT_INFO = instantiate("a1", None, "a3", 1000).st.MINT_INFO
    /\ TOTAL_BURNED = instantiate("a1", None, "a3", 1000).st.TOTAL_BURNED
    /\ instantiated_supply = 1000
    /\ total_minted = 0
    /\ now = 0
    /\ ncalls = 0
    /\ last = Idle

FactoryNext ==
    \/ CreateToken
    \/ FactoryMint
    \/ FactoryTransfer
    \/ FactorySetMintEnabled
    \/ FactoryLockOwnership
    \/ Respond

FactorySpec == FactoryInit /\ [][FactoryNext]_vars

----------------------------------------------------------------------------
(* Properties *)

\* balance_of: the stored balance, zero when the key is absent
balance_of(balances, a) == unwrap_or_default(balances[a])

RECURSIVE SumOver(_, _)
SumOver(balances, S) ==
    IF S = {} THEN 0
    ELSE LET a == CHOOSE x \in S : TRUE IN balance_of(balances, a) + SumOver(balances, S \ {a})

\* The sum of all account balances.
SumBalances(balances) == SumOver(balances, Addrs)

\* f is floor(a * p) for the fee fraction p = d / 100.
IsFloorOfProduct(f, a, d) == f * 100 <= a * d /\ a * d < (f + 1) * 100

\* `last` is a committed token call of kind op.
Committed(op) == last.contract = "token" /\ last.msg.op = op

\* The split of C1 between the storage `pre` and the storage `post` of a transfer.
SplitApplied(pre, post, sender, recipient, amount) ==
    \E fee \in 0..amount :
        /\ IsFloorOfProduct(fee, amount, pre.CONFIG.fee_percent)
        /\ fee + (amount - fee) = amount
        /\ balance_of(post.BALANCES, sender) = balance_of(pre.BALANCES, sender) - amount
        /\ balance_of(post.BALANCES, recipient) = balance_of(pre.BALANCES, recipient) + (amount - fee)
        /\ balance_of(post.BALANCES, pre.CONFIG.fee_receiver)
              = balance_of(pre.BALANCES, pre.CONFIG.fee_receiver) + fee

\* C1: a successful transfer of a from a sender to a distinct recipient, with a
\* distinct fee_receiver, debits the sender by a, credits the recipient by
\* a - fee and the fee_receiver by fee = floor(a * fee_percent).  Checked on every
\* committed transfer, and for every amount on the storage instantiate leaves.
C1_TransferSplit ==
    /\ Committed("transfer")
         /\ Cardinality({last.msg.sender, last.msg.recipient, last.pre.CONFIG.fee_receiver}) = 3
       => SplitApplied(last.pre, TokenStore, last.msg.sender, last.msg.recipient, last.msg.amount)
    /\ ncalls = 0 =>
         \A sender \in Addrs, recipient \in Addrs, amount \in 0..MaxUint128 :
            LET r == execute_transfer(TokenStore, sender, recipient, amount) IN
            r.ok /\ Cardinality({sender, recipient, CONFIG.fee_receiver}) = 3
               => SplitApplied(TokenStore, r.st, sender, recipient, amount)

\* The example of C1: initial_supply 1000, transfer of 100: sender 900, recipient 99, fee_receiver 1.
C1_Witness ==
    /\ Committed("transfer")
    /\ last.msg.amount = 100
    /\ Cardinality({last.msg.sender, last.msg.recipient, CONFIG.fee_receiver}) = 3
    /\ last.pre.BALANCES[last.msg.sender] = Some(1000)
    /\ BALANCES[last.msg.sender] = Some(900)
    /\ BALANCES[last.msg.recipient] = Some(99)
    /\ BALANCES[CONFIG.fee_receiver] = Some(1)

C3_TransferInsufficientBalance ==
    \A sender \in Addrs, recipient \in AddrStrings, amount \in TransferAmounts \cup {MaxUint128} :
        amount > balance_of(BALANCES, sender) =>
            LET r == execute_transfer(TokenStore, sender, recipient, amount) IN
            /\ ~r.ok
            /\ r.st = TokenStore
            /\ addr_validate(recipient) => r.err = ErrOverflowSub

\* An account that received tokens and holds fewer than it tries to send, and an
\* account with no balance record that tries to send.
C3_Witness ==
    /\ ncalls > 0
    /\ \E sender \in Addrs, recipient \in Addrs :
          /\ BALANCES[sender] # None
          /\ 0 < balance_of(BALANCES, sender) /\ balance_of(BALANCES, sender) < 100
          /\ execute_transfer(TokenStore, sender, recipient, 100).err = ErrOverflowSub
    /\ \E sender \in Addrs, recipient \in Addrs :
          /\ BALANCES[sender] = None
          /\ execute_transfer(TokenStore, sender, recipient, 50).err = ErrOverflowSub

\* C4: a burn of n > 0 by the owner either lowers the owner's balance by n, raises
\* total_burned by n and lowers total_supply by n, or fails with the handler having
\* changed none of the three: the balance debit never succeeds while the update of
\* total_burned or of total_supply fails.
C4_BurnAllOrNothing ==
    \A amount \in BurnAmounts \ {0} :
        LET owner == CONFIG.owner
            r == execute_burn(TokenStore, owner, amount) IN
        \/ /\ r.ok
           /\ balance_of(r.st.BALANCES, owner) = balance_of(BALANCES, owner) - amount
           /\ r.st.TOTAL_BURNED = TOTAL_BURNED + amount
           /\ r.st.TOKEN_INFO.total_supply = TOKEN_INFO.total_supply - amount
        \/ /\ ~r.ok
           /\ balance_of(r.st.BALANCES, owner) = balance_of(BALANCES, owner)
           /\ r.st.TOTAL_BURNED = TOTAL_BURNED
           /\ r.st.TOKEN_INFO.total_supply = TOKEN_INFO.total_supply

\* C5: a burn by any account other than Config.owner fails with Unauthorized and
\* writes nothing, whatever the amount and the caller's balance.
C5_BurnUnauthorized ==
    \A sender \in Addrs \ {CONFIG.owner}, amount \in BurnAmounts :
        execute_burn(TokenStore, sender, amount) = Err(ErrUnauthorized, TokenStore)

\* An account that is not the owner and holds enough to cover a burn.
C5_Witness ==
    \E sender \in Addrs \ {CONFIG.owner}, amount \in BurnAmounts \ {0} :
        /\ balance_of(BALANCES, sender) >= amount
        /\ execute_burn(TokenStore, sender, amount).err = ErrUnauthorized

\* C6: while Config.mint_enabled is false every mint fails with MintDisabled and
\* writes nothing, whatever the caller's mint record and the block time.
C6_MintDisabled ==
    ~CONFIG.mint_enabled =>
        \A sender \in Addrs, time \in Times :
            execute_mint(TokenStore, sender, time) = Err(ErrMintDisabled, TokenStore)

\* Mint is disabled, one account is within its cooldown at one block time and past
\* it at another.
C6_Witness ==
    /\ ~CONFIG.mint_enabled
    /\ \E sender \in Addrs, t1 \in Times, t2 \in Times :
          /\ MINT_INFO[sender] # None
          /\ t1 >= now /\ t1 < next_mint_time_of(TokenStore, sender)
          /\ t2 >= next_mint_time_of(TokenStore, sender)
          /\ execute_mint(TokenStore, sender, t1).err = ErrMintDisabled
          /\ execute_mint(TokenStore, sender, t2).err = ErrMintDisabled

\* A mint by `sender` at `time` would overflow the sender's balance or total_supply.
MintOverflows(sender) ==
    \/ balance_of(BALANCES, sender) + CONFIG.mint_amount > MaxUint128
    \/ TOKEN_INFO.total_supply + CONFIG.mint_amount > MaxUint128

\* C7 as claimed: with mint enabled, after an account's successful mint at t its
\* mint at u < t + I fails with MintOnCooldown and its mint at u >= t + I succeeds.
C7_MintOncePerWindow_Claimed ==
    CONFIG.mint_enabled =>
        \A sender \in Addrs, u \in Times :
            MINT_INFO[sender] # None /\ u >= now =>
                LET t == MINT_INFO[sender][1].last_mint_time
                    r == execute_mint(TokenStore, sender, u) IN
                /\ u < t + MINT_INTERVAL_SECONDS => r = Err(ErrMintCooldown, TokenStore)
                /\ u >= t + MINT_INTERVAL_SECONDS => r.ok

\* C7, amended: with mint enabled, after an account's successful mint at t its mint
\* at u < t + I fails with MintOnCooldown and writes nothing; its mint at
\* u >= t + I succeeds unless crediting mint_amount overflows its balance or
\* total_supply, and then it fails with the overflow error; a committed mint of an
\* account that minted before is at least I seconds after that mint.
C7_MintOncePerWindow ==
    /\ CONFIG.mint_enabled =>
        \A sender \in Addrs, u \in Times :
            MINT_INFO[sender] # None /\ u >= now =>
                LET t == MINT_INFO[sender][1].last_mint_time
                    r == execute_mint(TokenStore, sender, u) IN
                /\ u < t + MINT_INTERVAL_SECONDS => r = Err(ErrMintCooldown, TokenStore)
                /\ u >= t + MINT_INTERVAL_SECONDS =>
                      /\ r.ok <=> ~MintOverflows(sender)
                      /\ ~r.ok => r.err = ErrOverflowAdd
    /\ Committed("mint") =>
        /\ MINT_INFO[last.msg.sender] = Some([last_mint_time |-> last.time])
        /\ last.pre.MINT_INFO[last.msg.sender] # None =>
              last.time >= last.pre.MINT_INFO[last.msg.sender][1].last_mint_time
                            + MINT_INTERVAL_SECONDS

\* The second mint of an account has just been committed, exactly I seconds after
\* its first, and a third at the same block time would fail on the cooldown.
C7_Witness ==
    /\ Committed("mint")
    /\ last.pre.MINT_INFO[last.msg.sender] # None
    /\ last.time = last.pre.MINT_INFO[last.msg.sender][1].last_mint_time + MINT_INTERVAL_SECONDS
    /\ CONFIG.mint_enabled
    /\ execute_mint(TokenStore, last.msg.sender, last.time).err = ErrMintCooldown

\* C8: with mint enabled, the first mint of an account with no mint record is not
\* held back by the cooldown at any block time: it succeeds unless the credit
\* overflows.
C8_FirstMintAlwaysEligible ==
    CONFIG.mint_enabled =>
        \A sender \in Addrs, time \in Times :
            MINT_INFO[sender] = None /\ time >= now =>
                LET r == execute_mint(TokenStore, sender, time) IN
                r.ok \/ r.err = ErrOverflowAdd

C10_FactoryGovernanceOwnerGated ==
    \A sender \in Addrs, token_address \in Addrs :
        LET stranger ==
               /\ OWNER # Some(sender)
               /\ FACTORY_TOKEN_INFO[token_address] # None
                    => FACTORY_TOKEN_INFO[token_address][1].creator # sender IN
        stranger =>
            /\ \A enabled \in BOOLEAN :
                  set_mint_enabled(FactoryStore, sender, token_address, enabled)
                     = Err(ErrUnauthorized, FactoryStore)
            /\ lock_ownership(FactoryStore, sender, token_address)
                  = Err(ErrUnauthorized, FactoryStore)

\* C11: on the storage instantiate leaves, and on every storage reached from it, a
\* create_token call by any caller succeeds, stores the record (supply =
\* initial_supply, creator = caller, both flags false) under the token address and
\* appends that address to the caller's list and to the list of all tokens.
C11_CreateTokenSucceeds ==
    \A sender \in Addrs, name \in Names, initial_supply \in FactorySupplies :
        LET r == create_token(FactoryStore, sender, name, "SYM", initial_supply)
            tokens == IF TOKENS[sender] = None THEN <<>> ELSE TOKENS[sender][1]
            all_tokens == IF ALL_TOKENS = None THEN <<>> ELSE ALL_TOKENS[1] IN
        /\ r.ok
        /\ r.st.TOKEN_INFO[sender] # None
        /\ r.st.TOKEN_INFO[sender][1].supply = initial_supply
        /\ r.st.TOKEN_INFO[sender][1].creator = sender
        /\ ~r.st.TOKEN_INFO[sender][1].mint_enabled
        /\ ~r.st.TOKEN_INFO[sender][1].immutable_mode
        /\ r.st.TOKENS[sender] = Some(Append(tokens, sender))
        /\ r.st.ALL_TOKENS = Some(Append(all_tokens, sender))

\* No failing execute_transfer, execute_transfer_from, execute_burn or execute_mint
\* leaves a storage other than the one it was given.
TokenHandlersWriteNothingOnError ==
    /\ \A sender \in Addrs, recipient \in AddrStrings, amount \in TransferAmounts :
          LET r == execute_transfer(TokenStore, sender, recipient, amount) IN
          ~r.ok => r.st = TokenStore
    /\ \A sender \in Addrs, owner \in AddrStrings, recipient \in AddrStrings,
          amount \in TransferFromAmounts :
          LET r == execute_transfer_from(TokenStore, sender, owner, recipient, amount) IN
          ~r.ok => r.st = TokenStore
    /\ \A sender \in Addrs, amount \in BurnAmounts :
          LET r == execute_burn(TokenStore, sender, amount) IN
          ~r.ok => r.st = TokenStore
    /\ \A sender \in Addrs, time \in Times :
          time >= now =>
             LET r == execute_mint(TokenStore, sender, time) IN
             ~r.ok => r.st = TokenStore

\* No failing create_token leaves a storage other than the one it was given.
CreateTokenWritesNothingOnError ==
    \A sender \in Addrs, name \in Names, initial_supply \in FactorySupplies :
        LET r == create_token(FactoryStore, sender, name, "SYM", initial_supply) IN
        ~r.ok => r.st = FactoryStore

\* C12: a call that returns an error has written nothing: the storage a failing
\* execute_transfer, execute_transfer_from, execute_burn, execute_mint or
\* create_token leaves equals the storage it was given, overflow of balances and
\* of total_supply included.
C12_NoPartialEffects ==
    /\ TokenHandlersWriteNothingOnError
    /\ CreateTokenWritesNothingOnError

\* C13: total_burned is zero after instantiate and never decreases; a step changes
\* it only by committing a burn, which raises it by the burnt amount; a committed
\* transfer, transfer_from, mint or governance call and a failed call leave it as
\* it was.
C13_TotalBurnedMonotone ==
    /\ TOTAL_BURNED = 0
    /\ [][/\ TOTAL_BURNED' >= TOTAL_BURNED
          /\ last = Idle /\ Committed("burn")' => TOTAL_BURNED' = TOTAL_BURNED + last'.msg.amount
          /\ ~(last = Idle /\ Committed("burn")') => TOTAL_BURNED' = TOTAL_BURNED]_vars

\* A second burn has been committed on top of a first.
C13_Witness ==
    /\ Committed("burn")
    /\ last.pre.TOTAL_BURNED > 0
    /\ last.msg.amount > 0
    /\ TOTAL_BURNED = last.pre.TOTAL_BURNED + last.msg.amount

\* C14: a committed mint sets the caller's last_mint_time to the block time,
\* raises the caller's balance and total_supply by Config.mint_amount and changes
\* nothing else: the balances and mint records of the other accounts, the
\* allowances, total_burned and Config are as before.
C14_MintFrame ==
    Committed("mint") =>
        LET sender == last.msg.sender
            pre == last.pre IN
        /\ MINT_INFO[sender] = Some([last_mint_time |-> last.time])
        /\ now = last.time
        /\ balance_of(BALANCES, sender) = balance_of(pre.BALANCES, sender) + pre.CONFIG.mint_amount
        /\ TOKEN_INFO.total_supply = pre.TOKEN_INFO.total_supply + pre.CONFIG.mint_amount
        /\ \A a \in Addrs \ {sender} :
              /\ BALANCES[a] = pre.BALANCES[a]
              /\ MINT_INFO[a] = pre.MINT_INFO[a]
        /\ ALLOWANCES = pre.ALLOWANCES
        /\ TOTAL_BURNED = pre.TOTAL_BURNED
        /\ CONFIG = pre.CONFIG

\* A mint by an account that is not the owner, at a block time later than the mint
\* of another account, whose record and balance it leaves alone.
C14_Witness ==
    /\ Committed("mint")
    /\ last.msg.sender # CONFIG.owner
    /\ \E a \in Addrs \ {last.msg.sender} :
          /\ MINT_INFO[a] # None
          /\ MINT_INFO[a][1].last_mint_time < last.time
          /\ balance_of(BALANCES, a) > 0
    /\ balance_of(BALANCES, last.msg.sender) = CONFIG.mint_amount

\* allowance(owner, spender): the stored allowance, zero when the key is absent
allowance_of(allowances, owner, spender) ==
    IF allowances[<<owner, spender>>] = None THEN 0
    ELSE allowances[<<owner, spender>>][1].allowance

\* The storage with an allowance of n from owner to spender in place of the stored one.
WithAllowance(st, owner, spender, n) ==
    [st EXCEPT !.ALLOWANCES[<<owner, spender>>] = Some([allowance |-> n, expires |-> 0])]

\* What a successful transfer_from does between the storage pre and the storage post.
TransferFromApplied(pre, post, sender, owner, recipient, amount) ==
    /\ allowance_of(post.ALLOWANCES, owner, sender)
          = allowance_of(pre.ALLOWANCES, owner, sender) - amount
    /\ \A p \in (Addrs \X Addrs) \ {<<owner, sender>>} : post.ALLOWANCES[p] = pre.ALLOWANCES[p]
    /\ SumBalances(post.BALANCES) = SumBalances(pre.BALANCES)
    /\ Cardinality({owner, recipient, pre.CONFIG.fee_receiver}) = 3
          => SplitApplied(pre, post, owner, recipient, amount)

\* C15: a successful transfer_from lowers allowance(owner, caller) by the amount and
\* applies the split of transfer to the owner's balance; a transfer_from of more
\* than the allowance (absent counts as zero) fails with the allowance's checked_sub
\* overflow (InsufficientAllowance) and writes neither allowance nor balance.
\* Checked on every committed transfer_from, for every caller, owner and recipient
\* on every reachable storage, and on that storage with an allowance of 100 from
\* the instantiating account put in place.
C15_TransferFromAllowance ==
    /\ Committed("transfer_from") =>
          TransferFromApplied(last.pre, TokenStore, last.msg.sender, last.msg.addr,
                              last.msg.recipient, last.msg.amount)
    /\ \A sender \in Addrs, owner \in Addrs, recipient \in Addrs :
          100 > allowance_of(ALLOWANCES, owner, sender) =>
             execute_transfer_from(TokenStore, sender, owner, recipient, 100)
                = Err(ErrOverflowSub, TokenStore)
    /\ \A sender \in Addrs, recipient \in {"a2", "a3"}, amount \in {100, 101} :
          LET owner == "a1"
              st == WithAllowance(TokenStore, owner, sender, 100)
              r == execute_transfer_from(st, sender, owner, recipient, amount) IN
          IF amount > 100 THEN r = Err(ErrOverflowSub, st)
          ELSE IF amount > balance_of(BALANCES, owner) THEN ~r.ok
          ELSE r.ok /\ TransferFromApplied(st, r.st, sender, owner, recipient, amount)

\* An owner that holds 100 or more and gave the caller no allowance: a transfer_from
\* of 100 fails on the allowance, and one of 100 out of a granted 100 would move the
\* owner's tokens; a transfer_from of amount zero has been committed.
C15_Witness ==
    /\ Committed("transfer_from")
    /\ ALLOWANCES[<<last.msg.addr, last.msg.sender>>] = Some(AllowanceDefault)
    /\ \E sender \in Addrs, owner \in {"a1"}, recipient \in {"a2", "a3"} :
          /\ Cardinality({owner, recipient, CONFIG.fee_receiver}) = 3
          /\ sender # owner
          /\ balance_of(BALANCES, owner) >= 100
          /\ execute_transfer_from(TokenStore, sender, owner, recipient, 100).err = ErrOverflowSub
          /\ execute_transfer_from(WithAllowance(TokenStore, owner, sender, 100),
                                   sender, owner, recipient, 100).ok

\* The storage the host keeps after a call on st with result r: the handler's
\* writes when it returned Ok, st itself when it returned Err or panicked.
host_commit(st, r) == IF r.ok THEN r.st ELSE st

\* The results of every factory call the model draws, on the storage st.
FactoryResults(st) ==
    {create_token(st, sender, name, "SYM", initial_supply) :
        sender \in Addrs, name \in Names, initial_supply \in FactorySupplies}
    \cup {factory_mint(st, sender, token_address) : sender \in Addrs, token_address \in AddrStrings}
    \cup {factory_transfer(st, sender, token_address, recipient, amount) :
            sender \in Addrs, token_address \in AddrStrings, recipient \in AddrStrings,
            amount \in FactoryTransferAmounts}
    \cup {set_mint_enabled(st, sender, token_address, enabled) :
            sender \in Addrs, token_address \in AddrStrings, enabled \in BOOLEAN}
    \cup {lock_ownership(st, sender, token_address) : sender \in Addrs, token_address \in AddrStrings}

\* C16: after create_token by an account and lock_ownership on its token, the token's
\* immutable_mode is true; from then on set_mint_enabled on it fails with
\* ContractLocked for every caller, and no factory call by any caller, followed by
\* any second one, makes immutable_mode false or changes mint_enabled.
C16_FactoryLockOneWay ==
    \A creator \in Addrs, locker \in Addrs :
        LET st1 == host_commit(FactoryStore, create_token(FactoryStore, creator, "n1", "SYM", 1000))
            st2 == host_commit(st1, lock_ownership(st1, locker, creator))
            locked(st) == st.TOKEN_INFO[creator] # None /\ st.TOKEN_INFO[creator][1].immutable_mode
            kept(st) == /\ locked(st)
                        /\ st.TOKEN_INFO[creator][1].mint_enabled
                              = st2.TOKEN_INFO[creator][1].mint_enabled IN
        /\ locked(st2)
        /\ \A sender \in Addrs, enabled \in BOOLEAN :
              set_mint_enabled(st2, sender, creator, enabled) = Err(ErrContractLocked, st2)
        /\ \A r1 \in FactoryResults(st2) :
              /\ kept(host_commit(st2, r1))
              /\ \A r2 \in FactoryResults(host_commit(st2, r1)) :
                    kept(host_commit(host_commit(st2, r1), r2))

\* C17: two create_token calls by the same caller both succeed; the record under
\* the caller's address is then the second call's (name, symbol, supply, both flags
\* false) and the per-creator list and the global list each hold the address twice
\* more than before.
C17_CreateTwiceOverwrites ==
    \A sender \in Addrs, name1 \in Names, name2 \in Names,
       supply1 \in FactorySupplies, supply2 \in FactorySupplies :
        LET r1 == create_token(FactoryStore, sender, name1, "SYM", supply1)
            st1 == host_commit(FactoryStore, r1)
            r2 == create_token(st1, sender, name2, "SYM", supply2)
            tokens == IF TOKENS[sender] = None THEN <<>> ELSE TOKENS[sender][1]
            all_tokens == IF ALL_TOKENS = None THEN <<>> ELSE ALL_TOKENS[1] IN
        /\ r1.ok
        /\ r2.ok
        /\ r2.st.TOKEN_INFO[sender] =
              Some([name |-> name2, symbol |-> "SYM", supply |-> supply2,
                    fee_receiver |-> OWNER[1], creator |-> sender,
                    mint_enabled |-> FALSE, immutable_mode |-> FALSE])
        /\ r2.st.TOKENS[sender] = Some(tokens \o <<sender, sender>>)
        /\ r2.st.ALL_TOKENS = Some(all_tokens \o <<sender, sender>>)

\* C18: on a token just created (mint_enabled false) a mint by any caller fails with
\* MintDisabled and writes nothing; once set_mint_enabled(true) is committed, two
\* consecutive mints by any caller both succeed, each raising that token's supply
\* by the fixed amount and nothing else: the rest of the record, the other records,
\* the owner and both lists are as before.
C18_FactoryMint ==
    \A creator \in Addrs, sender \in Addrs :
        LET st1 == host_commit(FactoryStore, create_token(FactoryStore, creator, "n1", "SYM", 0))
            st2 == host_commit(st1, set_mint_enabled(st1, creator, creator, TRUE))
            m1 == factory_mint(st2, sender, creator)
            m2 == factory_mint(host_commit(st2, m1), sender, creator)
            minted(pre, post) ==
                /\ post.TOKEN_INFO[creator] # None
                /\ post.TOKEN_INFO[creator][1] =
                      [pre.TOKEN_INFO[creator][1] EXCEPT !.supply = @ + FACTORY_MINT_AMOUNT]
                /\ \A a \in Addrs \ {creator} : post.TOKEN_INFO[a] = pre.TOKEN_INFO[a]
                /\ post.OWNER = pre.OWNER
                /\ post.TOKENS = pre.TOKENS
                /\ post.ALL_TOKENS = pre.ALL_TOKENS IN
        /\ factory_mint(st1, sender, creator) = Err(ErrMintDisabled, st1)
        /\ m1.ok
        /\ minted(st2, m1.st)
        /\ m2.ok
        /\ minted(m1.st, m2.st)

\* C19: in every state reached from instantiate by transfer, transfer_from, burn and
\* mint calls (and governance calls), the sum of all balances equals total_supply,
\* and total_supply + total_burned equals initial_supply plus the amount minted so
\* far.
C19_SupplyAccounting ==
    /\ SumBalances(BALANCES) = TOKEN_INFO.total_supply
    /\ TOKEN_INFO.total_supply + TOTAL_BURNED = instantiated_supply + total_minted

\* Tokens have been burnt, minted and moved to an account other than the owner.
C19_Witness ==
    /\ TOTAL_BURNED > 0
    /\ total_minted > 0
    /\ \E a \in Addrs \ {CONFIG.owner} : balance_of(BALANCES, a) > 0
    /\ SumBalances(BALANCES) = TOKEN_INFO.total_supply

\* C20: Send, IncreaseAllowance and DecreaseAllowance fail with Unsupported and write
\* nothing, so every stored allowance is zero in every reachable state, and a
\* transfer_from of an amount > 0 fails for every caller, owner and recipient.
C20_NoAllowanceEverGranted ==
    /\ execute_unsupported(TokenStore) = Err(ErrUnsupported, TokenStore)
    /\ \A owner \in Addrs, spender \in Addrs : allowance_of(ALLOWANCES, owner, spender) = 0
    /\ \A sender \in Addrs, owner \in Addrs, recipient \in {"a2", InvalidAddr},
          amount \in {1, 100} :
          ~execute_transfer_from(TokenStore, sender, owner, recipient, amount).ok
    /\ Committed("transfer_from") => last.msg.amount = 0

\* A transfer_from of amount zero has stored an allowance record, of zero, and the
\* owner of that record holds enough for a transfer_from of 100, which fails.
C20_Witness ==
    /\ Committed("transfer_from")
    /\ last.pre.ALLOWANCES[<<last.msg.addr, last.msg.sender>>] = None
    /\ ALLOWANCES[<<last.msg.addr, last.msg.sender>>] # None
    /\ balance_of(BALANCES, last.msg.addr) >= 100
    /\ \A recipient \in Addrs :
          ~execute_transfer_from(TokenStore, last.msg.sender, last.msg.addr, recipient, 100).ok

====
